---------------------------- MODULE Spec2Model ----------------------------
(***************************************************************************)
(* Model of the typed-error library github.com/jurado-dev/errors, settled  *)
(* design: src/error.go (second package clause, lines 309-647) and         *)
(* src/error_types.go.                                                     *)
(*                                                                         *)
(* An error value is a reference: nil, a plain (non-typed) error such as   *)
(* errors.New("..."), or a pointer to one of the seven typed variants,     *)
(* each embedding one Err record.  The typed errors live in `heap`; a      *)
(* reference to one is its index.                                          *)
(***************************************************************************)
EXTENDS Integers, Sequences, FiniteSets, TLC

VARIABLES
    heap,      \* the typed errors allocated so far: Seq of [cat, Err]
    built,     \* ghost: each typed error exactly as its constructor returned it
    last,      \* ghost: the most recent constructor call [cat, opts, ret]
    pc,        \* per goroutine: "ready", "returned" or "panicked"
    call,      \* per goroutine: the API call it made and what it returned
    issued,    \* ghost: the (address, trace) pairs handed to Stack/StackMsg, in call order
    crashed    \* TRUE once an unrecovered panic has terminated the process

vars == <<heap, built, last, pc, call, issued, crashed>>

(***************************************************************************)
(* Bounds of the model.                                                    *)
(***************************************************************************)
\* options passed to one constructor call
MaxOpts == 2
\* goroutines sharing one error
NumG == 2

Goroutines == 1..NumG

(***************************************************************************)
(* Values.                                                                 *)
(***************************************************************************)
Categories ==
    {"BadRequest", "Internal", "NotFound", "Conflict", "Unauthorized", "Fatal", "NoContent"}

\* ErrTrace{} (src/error.go:356-360)
ZeroTrace == [File |-> "", Function |-> "", Line |-> 0]

\* what the location provider Trace() (src/error.go:596-647) returns at two call sites
T1 == [File |-> "svc.go", Function |-> "/svc.Load", Line |-> 10]

T2 == [File |-> "api.go", Function |-> "/api.Get", Line |-> 20]

Traces == {T1, T2}

Msgs == {"m", "n"}

StackMsgs == {"ctx"}

Codes == {0, 422}

\* error references
Nil == [kind |-> "nil", id |-> 0]

Plain(i) == [kind |-> "plain", id |-> i]

Typed(a) == [kind |-> "typed", id |-> a]

PlainErrs == {Plain(1)}

\* a Go string is a sequence of bytes: len(s) counts bytes and s[:n] cuts at a
\* byte offset.  A text of the model is a string with one symbol per byte, the
\* two bytes of a two-byte UTF-8 character being written "<" and ">".
RECURSIVE Repeat(_, _)
Repeat(s, n) ==
    IF n = 0 THEN ""
    ELSE LET half == Repeat(s, n \div 2) IN
         IF n % 2 = 0 THEN half \o half ELSE half \o half \o s

\* an ASCII text of exactly maxCauseLength bytes, one of one byte more, and a
\* text of 101 characters that takes 201 bytes
TextAtLimit == Repeat("x", 200)

TextOverLimit == Repeat("x", 201)

TextTwoByte == "a" \o Repeat("<>", 100)

\* errors.New(text).Error()
PlainText(i) ==
    CASE i = 0 -> ""
      [] i = 1 -> "p1"
      [] i = 2 -> TextAtLimit
      [] i = 3 -> TextOverLimit
      [] i = 4 -> TextTwoByte

\* the external (non-typed) errors a caller may pass to Cause
ExternalErrs == {Plain(i) : i \in 0..4}

TypedRefs == {Typed(a) : a \in 1..Len(heap)}

\* err.(TypedError): the seven pointer types implement GetErr and GetCode
IsTypedError(err) == err.kind = "typed"

\* te.GetErr(): the address of the embedded record
GetErr(err) == err.id

\* the nil *sync.RWMutex of a record whose mu was never allocated
NilMu == "nil"

\* var err Err: the zero record applyOptions starts from
ZeroErr ==
    [Cause |-> "", Message |-> "", StackMessage |-> "", Trace |-> ZeroTrace,
     Stack |-> <<>>, Wrapped |-> Nil, Code |-> 0, mu |-> NilMu]

(***************************************************************************)
(* Err.Error() and the error interface.                                    *)
(***************************************************************************)
maxCauseLength == 200

\* cause[:maxCauseLength] + "..." when longer
Truncate(cause) ==
    IF Len(cause) > maxCauseLength
    THEN SubSeq(cause, 1, maxCauseLength) \o "..."
    ELSE cause

\* faulty variant: the "<cause>: " prefix is written even when the cause is empty
ErrError_AlwaysPrefix(e) ==
    IF e.Trace.Line = 0
    THEN e.Message
    ELSE Truncate(e.Cause) \o ": " \o e.Message \o " (at " \o e.Trace.Function
             \o ":" \o ToString(e.Trace.Line) \o ")"

ErrError(e) ==
    IF e.Trace.Line = 0
    THEN e.Message
    ELSE IF Truncate(e.Cause) = ""
         THEN e.Message \o " (at " \o e.Trace.Function \o ":" \o ToString(e.Trace.Line) \o ")"
         ELSE Truncate(e.Cause) \o ": " \o e.Message \o " (at " \o e.Trace.Function
                  \o ":" \o ToString(e.Trace.Line) \o ")"

\* err.Error() of a non-nil error, the typed errors being those of h
ErrorString(h, err) ==
    IF err.kind = "typed" THEN ErrError(h[err.id].Err) ELSE PlainText(err.id)

(***************************************************************************)
(* Functional options (src/error_types.go:8-58).                           *)
(***************************************************************************)
CauseOpt(err) == [kind |-> "Cause", err |-> err, msg |-> "", trace |-> ZeroTrace, code |-> 0]

MsgOpt(m) == [kind |-> "Msg", err |-> Nil, msg |-> m, trace |-> ZeroTrace, code |-> 0]

\* WithTrace(): t is what Trace() captures when the option runs
WithTraceOpt(t) == [kind |-> "WithTrace", err |-> Nil, msg |-> "", trace |-> t, code |-> 0]

CodeOpt(k) == [kind |-> "Code", err |-> Nil, msg |-> "", trace |-> ZeroTrace, code |-> k]

\* faulty variant: the Msg option also resets the code
ApplyOption_MsgResetsCode(h, e, opt) ==
    CASE opt.kind = "Cause" ->
            IF opt.err # Nil
            THEN [e EXCEPT !.Cause = ErrorString(h, opt.err), !.Wrapped = opt.err]
            ELSE e
      [] opt.kind = "Msg" -> [e EXCEPT !.Message = opt.msg, !.Code = 0]
      [] opt.kind = "WithTrace" ->
            [e EXCEPT !.Trace = opt.trace, !.Stack = Append(e.Stack, opt.trace)]
      [] opt.kind = "Code" -> [e EXCEPT !.Code = opt.code]

\* faulty variant: a Msg option is ignored once a message is set
ApplyOption_FirstMsgWins(h, e, opt) ==
    CASE opt.kind = "Cause" ->
            IF opt.err # Nil
            THEN [e EXCEPT !.Cause = ErrorString(h, opt.err), !.Wrapped = opt.err]
            ELSE e
      [] opt.kind = "Msg" -> IF e.Message = "" THEN [e EXCEPT !.Message = opt.msg] ELSE e
      [] opt.kind = "WithTrace" ->
            [e EXCEPT !.Trace = opt.trace, !.Stack = Append(e.Stack, opt.trace)]
      [] opt.kind = "Code" -> [e EXCEPT !.Code = opt.code]

\* faulty variant: the initial trace is set by the first WithTrace option only
ApplyOption_FirstTraceWins(h, e, opt) ==
    CASE opt.kind = "Cause" ->
            IF opt.err # Nil
            THEN [e EXCEPT !.Cause = ErrorString(h, opt.err), !.Wrapped = opt.err]
            ELSE e
      [] opt.kind = "Msg" -> [e EXCEPT !.Message = opt.msg]
      [] opt.kind = "WithTrace" ->
            IF e.Trace = ZeroTrace
            THEN [e EXCEPT !.Trace = opt.trace, !.Stack = Append(e.Stack, opt.trace)]
            ELSE [e EXCEPT !.Stack = Append(e.Stack, opt.trace)]
      [] opt.kind = "Code" -> [e EXCEPT !.Code = opt.code]

\* faulty variant: Cause(nil) clears the cause set before
ApplyOption_NilCauseClears(h, e, opt) ==
    CASE opt.kind = "Cause" ->
            IF opt.err # Nil
            THEN [e EXCEPT !.Cause = ErrorString(h, opt.err), !.Wrapped = opt.err]
            ELSE [e EXCEPT !.Cause = "", !.Wrapped = Nil]
      [] opt.kind = "Msg" -> [e EXCEPT !.Message = opt.msg]
      [] opt.kind = "WithTrace" ->
            [e EXCEPT !.Trace = opt.trace, !.Stack = Append(e.Stack, opt.trace)]
      [] opt.kind = "Code" -> [e EXCEPT !.Code = opt.code]

\* opt(&err): one option applied to the record under construction
ApplyOption(h, e, opt) ==
    CASE opt.kind = "Cause" ->
            IF opt.err # Nil
            THEN [e EXCEPT !.Cause = ErrorString(h, opt.err), !.Wrapped = opt.err]
            ELSE e
      [] opt.kind = "Msg" -> [e EXCEPT !.Message = opt.msg]
      [] opt.kind = "WithTrace" ->
            [e EXCEPT !.Trace = opt.trace, !.Stack = Append(e.Stack, opt.trace)]
      [] opt.kind = "Code" -> [e EXCEPT !.Code = opt.code]

RECURSIVE ApplyFrom(_, _, _)
ApplyFrom(h, e, opts) ==
    IF opts = <<>> THEN e ELSE ApplyFrom(h, ApplyOption(h, e, Head(opts)), Tail(opts))

\* faulty variant: every constructor records a trace of its own
applyOptions_Traced(h, opts) == ApplyFrom(h, ApplyOption(h, ZeroErr, WithTraceOpt(T1)), opts)

applyOptions(h, opts) == ApplyFrom(h, ZeroErr, opts)

(***************************************************************************)
(* Typed variants (src/error_types.go:60-254).                             *)
(***************************************************************************)
DefaultCode(cat) ==
    CASE cat = "BadRequest" -> 400
      [] cat = "Internal" -> 500
      [] cat = "NotFound" -> 404
      [] cat = "Conflict" -> 409
      [] cat = "Unauthorized" -> 403
      [] cat = "Fatal" -> 500
      [] cat = "NoContent" -> 204

\* faulty variant: the stored code is returned with no fall-back to the category default
GetCodeMethod_NoDefault(a) == heap[a].Err.Code

\* faulty variant: the category default is returned whatever Code option was given
GetCodeMethod_DefaultOnly(a) == DefaultCode(heap[a].cat)

\* (e *BadRequest) GetCode() and its six siblings
GetCodeMethod(a) ==
    IF heap[a].Err.Code # 0 THEN heap[a].Err.Code ELSE DefaultCode(heap[a].cat)

\* faulty variant: a variant without a working Unwrap method
UnwrapMethod_Nil(a) == Nil

\* (e *BadRequest) Unwrap() and its six siblings
UnwrapMethod(a) == heap[a].Err.Wrapped

\* faulty variant: a direct type assertion err.(*C) in place of the chain walk
As_Direct(err, cat) == err.kind = "typed" /\ heap[err.id].cat = cat

\* stderrors.As(err, &target) with target a pointer to category cat: the
\* error itself, then whatever its Unwrap method returns, until nil or an
\* error without an Unwrap method (a plain error)
RECURSIVE As(_, _)
As(err, cat) ==
    IF err.kind # "typed"
    THEN FALSE
    ELSE IF heap[err.id].cat = cat THEN TRUE ELSE As(UnwrapMethod(err.id), cat)

\* faulty variant: IsFatal declares its target as *Internal
IsCategory_WrongTarget(err, cat) == As(err, IF cat = "Fatal" THEN "Internal" ELSE cat)

\* IsBadRequest .. IsNoContent
IsCategory(err, cat) == As(err, cat)

\* faulty variant: a non-typed error is given the code of an internal error
GetCode_PlainDefault(err) ==
    IF err = Nil THEN 0
    ELSE IF IsTypedError(err) THEN GetCodeMethod(GetErr(err))
    ELSE 500

\* GetCode(err) (src/error.go:584-594)
GetCode(err) ==
    IF err = Nil THEN 0
    ELSE IF IsTypedError(err) THEN GetCodeMethod(GetErr(err))
    ELSE 0

(***************************************************************************)
(* Constructors: NewBadRequest .. NewNoContent.                            *)
(***************************************************************************)
\* the options a caller can pass while the heap is as it is
Options ==
    {CauseOpt(e) : e \in {Nil} \cup ExternalErrs \cup TypedRefs}
        \cup {MsgOpt(m) : m \in Msgs}
        \cup {WithTraceOpt(t) : t \in Traces}
        \cup {CodeOpt(k) : k \in Codes}

OptLists == UNION {[1..n -> Options] : n \in 0..MaxOpts}

NoCall == [op |-> "none", err |-> Nil, msg |-> "", trace |-> ZeroTrace,
           ret |-> Nil, stack |-> <<>>, shared |-> FALSE, text |-> ""]

NoNew == [cat |-> "none", opts |-> <<>>, ret |-> Nil]

\* &BadRequest{Err: applyOptions(opts)}: the heap h with the new error allocated
Alloc(h, cat, opts) == Append(h, [cat |-> cat, Err |-> applyOptions(h, opts)])

\* a constructor call on the errors that exist
New(cat, opts) ==
    /\ ~crashed
    /\ heap' = Alloc(heap, cat, opts)
    /\ built' = heap'
    /\ last' = [cat |-> cat, opts |-> opts, ret |-> Typed(Len(heap) + 1)]
    /\ UNCHANGED <<pc, call, issued, crashed>>

(***************************************************************************)
(* The guard (src/error.go:337-354).  Err.mu is a *sync.RWMutex that no    *)
(* constructor and no option ever allocates (applyOptions starts from the  *)
(* zero Err), and lock/rlock call e.mu.Lock()/e.mu.RLock() without a nil   *)
(* check: on a nil mu that is a nil pointer dereference, a run-time panic, *)
(* raised before the deferred unlock is registered.                        *)
(***************************************************************************)
\* e.lock() panics
LockPanics(a) == heap[a].Err.mu = NilMu

\* e.rlock() panics
RLockPanics(a) == heap[a].Err.mu = NilMu

(***************************************************************************)
(* Stack, StackMsg, GetStack (src/error.go:397-429, 527-547), each called  *)
(* once by a goroutine on an error the goroutines share.  A call on a      *)
(* record whose guard is allocated runs its critical section under the     *)
(* RWMutex, so the section is one step; a panic no goroutine recovers      *)
(* terminates the process.                                                 *)
(***************************************************************************)
Targets == {Nil} \cup PlainErrs \cup TypedRefs

\* the goroutine's call returns
Return(g, c) ==
    /\ pc' = [pc EXCEPT ![g] = "returned"]
    /\ call' = [call EXCEPT ![g] = c]
    /\ crashed' = crashed

\* the goroutine's call panics: nothing recovers it
Panic(g, c) ==
    /\ pc' = [pc EXCEPT ![g] = "panicked"]
    /\ call' = [call EXCEPT ![g] = c]
    /\ crashed' = TRUE

\* e.Stack = append(e.Stack, trace)
AppendTrace(a, trace) ==
    [heap EXCEPT ![a].Err.Stack = Append(heap[a].Err.Stack, trace)]

\* e.Stack = append(e.Stack, trace); e.StackMessage = msg
AppendTraceMsg(a, msg, trace) ==
    [heap EXCEPT ![a].Err.Stack = Append(heap[a].Err.Stack, trace),
                 ![a].Err.StackMessage = msg]

\* faulty variant: Stack starts a new history instead of appending to the old one
Stack_ResetsHistory(g, err, trace) ==
    LET c == [NoCall EXCEPT !.op = "Stack", !.err = err, !.trace = trace] IN
    /\ ~crashed
    /\ pc[g] = "ready"
    /\ UNCHANGED <<built, last>>
    /\ IF err = Nil
       THEN /\ Return(g, [c EXCEPT !.ret = err])
            /\ UNCHANGED <<heap, issued>>
       ELSE IF IsTypedError(err)
            THEN /\ issued' = Append(issued, [addr |-> GetErr(err), trace |-> trace])
                 /\ heap' = [heap EXCEPT ![GetErr(err)].Err.Stack = <<trace>>]
                 /\ IF LockPanics(GetErr(err))
                    THEN Panic(g, c)
                    ELSE Return(g, [c EXCEPT !.ret = err])
            ELSE /\ Return(g, [c EXCEPT !.ret = err])
                 /\ UNCHANGED <<heap, issued>>

Stack(g, err, trace) ==
    LET c == [NoCall EXCEPT !.op = "Stack", !.err = err, !.trace = trace] IN
    /\ ~crashed
    /\ pc[g] = "ready"
    /\ UNCHANGED <<built, last>>
    /\ IF err = Nil
       THEN /\ Return(g, [c EXCEPT !.ret = err])
            /\ UNCHANGED <<heap, issued>>
       ELSE IF IsTypedError(err)
            THEN /\ issued' = Append(issued, [addr |-> GetErr(err), trace |-> trace])
                 /\ IF LockPanics(GetErr(err))
                    THEN /\ Panic(g, c)
                         /\ heap' = heap
                    ELSE /\ heap' = AppendTrace(GetErr(err), trace)
                         /\ Return(g, [c EXCEPT !.ret = err])
            ELSE /\ Return(g, [c EXCEPT !.ret = err])
                 /\ UNCHANGED <<heap, issued>>

\* faulty variant: StackMsg stores its message in Message, before it takes the guard
StackMsg_WritesMessage(g, err, msg, trace) ==
    LET c == [NoCall EXCEPT !.op = "StackMsg", !.err = err, !.msg = msg, !.trace = trace] IN
    /\ ~crashed
    /\ pc[g] = "ready"
    /\ UNCHANGED <<built, last>>
    /\ IF err = Nil
       THEN /\ Return(g, [c EXCEPT !.ret = err])
            /\ UNCHANGED <<heap, issued>>
       ELSE IF IsTypedError(err)
            THEN /\ issued' = Append(issued, [addr |-> GetErr(err), trace |-> trace])
                 /\ IF LockPanics(GetErr(err))
                    THEN /\ Panic(g, c)
                         /\ heap' = [heap EXCEPT ![GetErr(err)].Err.Message = msg]
                    ELSE /\ heap' = [heap EXCEPT ![GetErr(err)].Err.Message = msg,
                                                 ![GetErr(err)].Err.Stack =
                                                     Append(heap[GetErr(err)].Err.Stack, trace)]
                         /\ Return(g, [c EXCEPT !.ret = err])
            ELSE /\ Return(g, [c EXCEPT !.ret = err])
                 /\ UNCHANGED <<heap, issued>>

StackMsg(g, err, msg, trace) ==
    LET c == [NoCall EXCEPT !.op = "StackMsg", !.err = err, !.msg = msg, !.trace = trace] IN
    /\ ~crashed
    /\ pc[g] = "ready"
    /\ UNCHANGED <<built, last>>
    /\ IF err = Nil
       THEN /\ Return(g, [c EXCEPT !.ret = err])
            /\ UNCHANGED <<heap, issued>>
       ELSE IF IsTypedError(err)
            THEN /\ issued' = Append(issued, [addr |-> GetErr(err), trace |-> trace])
                 /\ IF LockPanics(GetErr(err))
                    THEN /\ Panic(g, c)
                         /\ heap' = heap
                    ELSE /\ heap' = AppendTraceMsg(GetErr(err), msg, trace)
                         /\ Return(g, [c EXCEPT !.ret = err])
            ELSE /\ Return(g, [c EXCEPT !.ret = err])
                 /\ UNCHANGED <<heap, issued>>

\* extractErr(err): the record's address, 0 for nil (a non-typed error)
extractErr(err) == IF IsTypedError(err) THEN GetErr(err) ELSE 0

\* whether the slice GetStack hands out shares its backing array with e.Stack:
\* []ErrTrace{} and make+copy are both fresh
GetStackShares(a) == FALSE

\* faulty variant: the reader resolves the default code into the record before
\* it takes the guard
GetStack_ResolvesCode(g, err) ==
    LET c == [NoCall EXCEPT !.op = "GetStack", !.err = err]
        a == extractErr(err) IN
    /\ ~crashed
    /\ pc[g] = "ready"
    /\ UNCHANGED <<built, last, issued>>
    /\ IF err = Nil \/ a = 0
       THEN /\ Return(g, c)
            /\ heap' = heap
       ELSE /\ heap' = [heap EXCEPT ![a].Err.Code = GetCodeMethod(a)]
            /\ IF RLockPanics(a)
               THEN Panic(g, c)
               ELSE IF Len(heap[a].Err.Stack) = 0
                    THEN Return(g, c)
                    ELSE Return(g, [c EXCEPT !.stack = heap[a].Err.Stack,
                                             !.shared = GetStackShares(a)])

GetStack(g, err) ==
    LET c == [NoCall EXCEPT !.op = "GetStack", !.err = err]
        a == extractErr(err) IN
    /\ ~crashed
    /\ pc[g] = "ready"
    /\ UNCHANGED <<heap, built, last, issued>>
    /\ IF err = Nil \/ a = 0
       THEN Return(g, c)
       ELSE IF RLockPanics(a)
            THEN Panic(g, c)
            ELSE IF Len(heap[a].Err.Stack) = 0
                 THEN Return(g, c)
                 ELSE Return(g, [c EXCEPT !.stack = heap[a].Err.Stack,
                                          !.shared = GetStackShares(a)])

(***************************************************************************)
(* Accessors that read single fields without the guard                     *)
(* (src/error.go:474-525, 573-582).                                        *)
(***************************************************************************)
\* Unwrap(err)
Unwrap(err) ==
    LET a == extractErr(err) IN
    IF err = Nil THEN err
    ELSE IF a = 0 \/ (heap[a].Err.Cause = "" /\ heap[a].Err.Message = "") THEN err
    ELSE heap[a].Err.Wrapped

\* faulty variant: nil is rendered instead of answered with the empty string
GetCause_NilText(err) ==
    LET a == extractErr(err) IN
    IF err = Nil THEN "<nil>"
    ELSE IF a = 0 THEN ErrorString(heap, err)
    ELSE IF heap[a].Err.Cause = "" /\ heap[a].Err.Message # "" THEN heap[a].Err.Message
    ELSE IF heap[a].Err.Cause = "" /\ heap[a].Err.Message = "" THEN ErrorString(heap, err)
    ELSE heap[a].Err.Cause

\* GetCause(err)
GetCause(err) ==
    LET a == extractErr(err) IN
    IF err = Nil THEN ""
    ELSE IF a = 0 THEN ErrorString(heap, err)
    ELSE IF heap[a].Err.Cause = "" /\ heap[a].Err.Message # "" THEN heap[a].Err.Message
    ELSE IF heap[a].Err.Cause = "" /\ heap[a].Err.Message = "" THEN ErrorString(heap, err)
    ELSE heap[a].Err.Cause

\* faulty variant: the stored message is returned with no fall-back to err.Error()
GetMessage_NoFallback(err) ==
    LET a == extractErr(err) IN
    IF err = Nil THEN ""
    ELSE IF a = 0 THEN ErrorString(heap, err)
    ELSE heap[a].Err.Message

\* GetMessage(err)
GetMessage(err) ==
    LET a == extractErr(err) IN
    IF err = Nil THEN ""
    ELSE IF a = 0 \/ heap[a].Err.Message = "" THEN ErrorString(heap, err)
    ELSE heap[a].Err.Message

\* GetTrace(err)
GetTrace(err) ==
    LET a == extractErr(err) IN
    IF err = Nil THEN ZeroTrace
    ELSE IF a = 0 \/ heap[a].Err.Trace.File = "" THEN ZeroTrace
    ELSE heap[a].Err.Trace

\* faulty variant: the wrapped field is returned even when it is nil
GetWrapped_NoFallback(err) ==
    LET a == extractErr(err) IN
    IF err = Nil THEN Nil
    ELSE IF a = 0 THEN err
    ELSE heap[a].Err.Wrapped

\* GetWrapped(err)
GetWrapped(err) ==
    LET a == extractErr(err) IN
    IF err = Nil THEN Nil
    ELSE IF a = 0 \/ heap[a].Err.Wrapped = Nil THEN err
    ELSE heap[a].Err.Wrapped

(***************************************************************************)
(* ErrorF and GetStackJson (src/error.go:431-472, 549-571): aggregate      *)
(* reads under the read guard, each called once by a goroutine.            *)
(***************************************************************************)
\* "\n  %d. %s:%d in %s" for the entries i.. of the history
RECURSIVE StackLines(_, _)
StackLines(stack, i) ==
    IF i > Len(stack) THEN ""
    ELSE "\n  " \o ToString(i) \o ". " \o stack[i].File \o ":" \o ToString(stack[i].Line)
             \o " in " \o stack[i].Function \o StackLines(stack, i + 1)

\* the output ErrorF builds under the read guard
ErrorFOutput(a) ==
    LET e == heap[a].Err IN
    "\nError [Code: " \o ToString(GetCode(Typed(a))) \o "]"
        \o (IF e.Cause # "" THEN "\n  Cause:   " \o e.Cause ELSE "")
        \o (IF e.Message # "" THEN "\n  Message: " \o e.Message ELSE "")
        \o (IF e.StackMessage # "" THEN "\n  Stack:   " \o e.StackMessage ELSE "")
        \o (IF Len(e.Stack) > 0 THEN "\n\nStack Trace:" \o StackLines(e.Stack, 1) ELSE "")

ErrorF(g, err) ==
    LET c == [NoCall EXCEPT !.op = "ErrorF", !.err = err]
        a == extractErr(err) IN
    /\ ~crashed
    /\ pc[g] = "ready"
    /\ UNCHANGED <<heap, built, last, issued>>
    /\ IF err = Nil
       THEN Return(g, c)
       ELSE IF a = 0 \/ (heap[a].Err.Cause = "" /\ heap[a].Err.Message = "")
            THEN Return(g, [c EXCEPT !.text = ErrorString(heap, err)])
            ELSE IF RLockPanics(a)
                 THEN Panic(g, c)
                 ELSE Return(g, [c EXCEPT !.text = ErrorFOutput(a)])

\* json.Marshal of one ErrTrace, by its field tags
TraceJson(t) ==
    "{\"file\":\"" \o t.File \o "\",\"function\":\"" \o t.Function
        \o "\",\"line\":" \o ToString(t.Line) \o "}"

RECURSIVE TracesJson(_, _)
TracesJson(stack, i) ==
    IF i > Len(stack) THEN ""
    ELSE (IF i > 1 THEN "," ELSE "") \o TraceJson(stack[i]) \o TracesJson(stack, i + 1)

\* string(json.Marshal(e.Stack)) of a non-empty history
StackJson(stack) == "[" \o TracesJson(stack, 1) \o "]"

GetStackJson(g, err) ==
    LET c == [NoCall EXCEPT !.op = "GetStackJson", !.err = err]
        a == extractErr(err) IN
    /\ ~crashed
    /\ pc[g] = "ready"
    /\ UNCHANGED <<heap, built, last, issued>>
    /\ IF err = Nil
       THEN Return(g, c)
       ELSE IF a = 0
            THEN Return(g, [c EXCEPT !.text = "{}"])
            ELSE IF RLockPanics(a)
                 THEN Panic(g, c)
                 ELSE IF Len(heap[a].Err.Stack) = 0
                      THEN Return(g, [c EXCEPT !.text = "{}"])
                      ELSE Return(g, [c EXCEPT !.text = StackJson(heap[a].Err.Stack)])

\* the errors the concurrent tests share: NewC(), NewC(Msg), NewC(Msg, WithTrace),
\* NewC(Cause(plain), Msg)
SharedOpts ==
    {<<>>, <<MsgOpt("m")>>, <<MsgOpt("m"), WithTraceOpt(T1)>>,
     <<CauseOpt(Plain(1)), MsgOpt("m")>>}

\* the shared error alone, or with a second typed error that wraps it
WithWrapper(h) == {h, Alloc(h, "Internal", <<CauseOpt(Typed(1)), MsgOpt("m")>>)}

InitConc ==
    /\ \E cat \in Categories, opts \in SharedOpts :
          /\ heap \in WithWrapper(Alloc(<<>>, cat, opts))
          /\ last = [cat |-> cat, opts |-> opts, ret |-> Typed(1)]
    /\ built = heap
    /\ pc = [g \in Goroutines |-> "ready"]
    /\ call = [g \in Goroutines |-> NoCall]
    /\ issued = <<>>
    /\ crashed = FALSE

NextConc ==
    \/ \E g \in Goroutines, err \in Targets, t \in Traces : Stack(g, err, t)
    \/ \E g \in Goroutines, err \in Targets, m \in StackMsgs, t \in Traces :
          StackMsg(g, err, m, t)
    \/ \E g \in Goroutines, err \in Targets : GetStack(g, err)
    \/ \E g \in Goroutines, err \in Targets : ErrorF(g, err)
    \/ \E g \in Goroutines, err \in Targets : GetStackJson(g, err)

SpecConc == InitConc /\ [][NextConc]_vars

\* the scheduler runs every goroutine that is ready to make its call
FairSpecConc == SpecConc /\ WF_vars(NextConc)

\* the typed errors a caller may already hold when it calls a constructor:
\* none; one of any category, bare or with a message and a trace; or such an
\* error already wrapped as the cause of an Internal error
FixtureOpts == {<<>>, <<MsgOpt("m"), WithTraceOpt(T1)>>}

Fixtures ==
    {<<>>}
        \cup {Alloc(<<>>, c, o) : c \in Categories, o \in FixtureOpts}
        \cup {Alloc(Alloc(<<>>, c, o), "Internal", <<CauseOpt(Typed(1))>>) :
                  c \in Categories, o \in FixtureOpts}

Init ==
    /\ heap \in Fixtures
    /\ built = heap
    /\ last = NoNew
    /\ pc = [g \in Goroutines |-> "ready"]
    /\ call = [g \in Goroutines |-> NoCall]
    /\ issued = <<>>
    /\ crashed = FALSE

\* one constructor call, of any category with any option list, per behaviour
Next ==
    /\ last = NoNew
    /\ \E cat \in Categories, opts \in OptLists : New(cat, opts)

Spec == Init /\ [][Next]_vars

(***************************************************************************)
(* Helpers of the properties.                                              *)
(***************************************************************************)
Addrs == 1..Len(heap)

\* how often trace t occurs in the sequence s
Occurrences(s, t) == Cardinality({i \in DOMAIN s : s[i] = t})

\* the traces handed to Stack/StackMsg calls on the record at a, in call order
IssuedOn(a) ==
    LET sel == SelectSeq(issued, LAMBDA r : r.addr = a) IN
    [i \in 1..Len(sel) |-> sel[i].trace]

\* goroutines whose Stack or StackMsg call on the record at a has been made
Appenders(a) ==
    {g \in Goroutines : /\ pc[g] # "ready"
                        /\ call[g].op \in {"Stack", "StackMsg"}
                        /\ call[g].err = Typed(a)}

\* goroutines whose GetStack call on a typed error has been made
StackReaders ==
    {g \in Goroutines : /\ pc[g] # "ready"
                        /\ call[g].op = "GetStack"
                        /\ IsTypedError(call[g].err)}

(***************************************************************************)
(* C1-C5: Stack, StackMsg and GetStack on a shared error (SpecConc).       *)
(***************************************************************************)
\* C1: when goroutines call Stack concurrently on one shared typed error (and
\* nothing else appends to it), every call made so far has completed normally,
\* the history has grown by exactly one entry per call, and each appended
\* entry is in it exactly once more than at construction.
C1_ConcurrentStackNoLostAppend ==
    \A a \in Addrs :
        (\A g \in Appenders(a) : call[g].op = "Stack") =>
            /\ \A g \in Appenders(a) : pc[g] = "returned"
            /\ Len(heap[a].Err.Stack) = Len(built[a].Err.Stack) + Cardinality(Appenders(a))
            /\ \A t \in Traces :
                  Occurrences(heap[a].Err.Stack, t) =
                      Occurrences(built[a].Err.Stack, t)
                          + Cardinality({g \in Appenders(a) : call[g].trace = t})

\* C2: every GetStack call on a typed error returns, and what it returns is the
\* record's history at one instant: the construction-time history followed by
\* the first n entries appended so far, for some n, hence a prefix of the
\* current (and final) history with no entry partial or doubled.
C2_GetStackConsistentSnapshot ==
    \A g \in StackReaders :
        LET a == GetErr(call[g].err) IN
        /\ pc[g] = "returned"
        /\ \E n \in 0..Len(IssuedOn(a)) :
              call[g].stack = built[a].Err.Stack \o SubSeq(IssuedOn(a), 1, n)
        /\ Len(call[g].stack) <= Len(heap[a].Err.Stack)
        /\ SubSeq(heap[a].Err.Stack, 1, Len(call[g].stack)) = call[g].stack

\* C3: GetStack on a typed error hands out a defensive copy: the call returns
\* the stored entries in a sequence that does not share storage with the
\* record's history, so that writing to it leaves the record unchanged.
C3_GetStackDefensiveCopy ==
    \A g \in StackReaders :
        LET a == GetErr(call[g].err) IN
        /\ pc[g] = "returned"
        /\ ~call[g].shared
        /\ heap[a].Err.Stack = built[a].Err.Stack \o IssuedOn(a)

\* C4: after Stack/StackMsg calls with entries t1..tN on a freshly constructed
\* typed error, its history is the construction-time history followed by
\* t1..tN in call order (so its length is initial + N).
C4_AppendInCallOrder ==
    \A a \in Addrs :
        /\ heap[a].Err.Stack = built[a].Err.Stack \o IssuedOn(a)
        /\ Len(heap[a].Err.Stack) = Len(built[a].Err.Stack) + Len(IssuedOn(a))

\* C5: Stack and StackMsg return exactly the reference they were given, for a
\* typed error, a nil error and a non-typed error alike, without failing; on a
\* nil or non-typed error they modify nothing.
C5_StackReturnsItsArgument ==
    \A g \in Goroutines :
        (pc[g] # "ready" /\ call[g].op \in {"Stack", "StackMsg"}) =>
            /\ pc[g] = "returned"
            /\ call[g].ret = call[g].err
            /\ (~IsTypedError(call[g].err) /\ issued = <<>>) => heap = built

(***************************************************************************)
(* C6-C10: category identity and status codes of a constructed error       *)
(* (Spec).                                                                 *)
(***************************************************************************)
\* no option of the list wraps a typed error
NoTypedCause(opts) ==
    \A i \in DOMAIN opts : ~(opts[i].kind = "Cause" /\ IsTypedError(opts[i].err))

\* no option of the list is a Code option
NoCodeOpt(opts) == \A i \in DOMAIN opts : opts[i].kind # "Code"

\* the code of the last Code option of the list, 0 when there is none
LastCode(opts) ==
    LET I == {i \in DOMAIN opts : opts[i].kind = "Code"} IN
    IF I = {} THEN 0 ELSE opts[CHOOSE i \in I : \A j \in I : j <= i].code

\* the errors reachable from err by following wrapped causes, err included
RECURSIVE CauseClosure(_, _)
CauseClosure(S, n) ==
    IF n = 0 THEN S
    ELSE LET T == S \cup {heap[x.id].Err.Wrapped : x \in {y \in S : IsTypedError(y)}} IN
         IF T = S THEN S ELSE CauseClosure(T, n - 1)

Chain(err) == CauseClosure({err}, Len(heap))

\* C6: category round-trip: an error built by the constructor of category C
\* from options that wrap no typed error answers true to IsC and false to the
\* check of every other category.
C6_CategoryRoundTrip ==
    (last.cat \in Categories /\ NoTypedCause(last.opts)) =>
        \A c \in Categories : IsCategory(last.ret, c) <=> (c = last.cat)

C6_Witness ==
    /\ last.cat = "Fatal"
    /\ last.opts = <<CauseOpt(Plain(1)), MsgOpt("m")>>
    /\ IsCategory(last.ret, "Fatal")
    /\ ~IsCategory(last.ret, "Internal")

C9_DefaultCode ==
    (last.cat \in Categories /\ NoCodeOpt(last.opts)) =>
        GetCode(last.ret) =
            CASE last.cat = "BadRequest" -> 400
              [] last.cat = "Unauthorized" -> 403
              [] last.cat = "NotFound" -> 404
              [] last.cat = "Conflict" -> 409
              [] last.cat = "Internal" -> 500
              [] last.cat = "Fatal" -> 500
              [] last.cat = "NoContent" -> 204

C9_Witness ==
    /\ last.cat = "NoContent"
    /\ last.opts = <<MsgOpt("m"), WithTraceOpt(T1)>>
    /\ GetCode(last.ret) = 204

\* C10: code override: when the Code option of a constructor call (the last
\* one, if several are given) carries a non-zero code k, GetCode of the result
\* is k whatever the category and the other options.
C10_CodeOverride ==
    (last.cat \in Categories /\ LastCode(last.opts) # 0) =>
        GetCode(last.ret) = LastCode(last.opts)

C10_Witness ==
    /\ last.cat = "NotFound"
    /\ last.opts = <<CodeOpt(422), CauseOpt(Plain(1))>>
    /\ GetCode(last.ret) = 422

(***************************************************************************)
(* C11-C20: accessors and rendering.                                       *)
(***************************************************************************)
\* the error of the last Cause option of the list that carries a non-nil
\* error, nil when there is none
LastCause(opts) ==
    LET I == {i \in DOMAIN opts : opts[i].kind = "Cause" /\ opts[i].err # Nil} IN
    IF I = {} THEN Nil ELSE opts[CHOOSE i \in I : \A j \in I : j <= i].err

\* the number of characters of a text: every byte but the second byte of a
\* two-byte character starts one
CharLen(s) == Cardinality({i \in 1..Len(s) : SubSeq(s, i, i) # ">"})

\* the first n characters of a text: its longest prefix of at most n
\* characters that ends where a character ends
FirstChars(s, n) ==
    LET ends == {k \in 0..Len(s) : /\ CharLen(SubSeq(s, 1, k)) <= n
                                    /\ (k = Len(s) \/ SubSeq(s, k + 1, k + 1) # ">")}
    IN  SubSeq(s, 1, CHOOSE k \in ends : \A m \in ends : m <= k)

\* the documented default status code of a category
DocumentedCode(cat) ==
    CASE cat \in {"Internal", "Fatal"} -> 500
      [] cat = "BadRequest" -> 400
      [] cat = "Unauthorized" -> 403
      [] cat = "NotFound" -> 404
      [] cat = "Conflict" -> 409
      [] cat = "NoContent" -> 204

\* the permutations of 1..n
Perms(n) == {f \in [1..n -> 1..n] : \A i, j \in 1..n : f[i] = f[j] => i = j}

\* at most one option of each kind
AtMostOneEach(opts) ==
    \A i, j \in DOMAIN opts : opts[i].kind = opts[j].kind => i = j

\* C11 as claimed: cause preservation: for a non-nil external error E,
\* Unwrap(NewC(Cause(E), ...)) is E itself, whatever the category and the
\* other options.
C11_UnwrapReturnsCause ==
    (last.cat \in Categories /\ LastCause(last.opts) \in ExternalErrs) =>
        Unwrap(last.ret) = LastCause(last.opts)

\* C12 as claimed: Unwrap of a typed error constructed without a cause, with
\* or without a message, is nil, never the error itself.
C12_UnwrapNilWithoutCause ==
    (last.cat \in Categories /\ LastCause(last.opts) = Nil) =>
        /\ Unwrap(last.ret) = Nil
        /\ Unwrap(last.ret) # last.ret

\* C13: order independence: when the options of a constructor call hold at
\* most one cause, one message, one trace and one code, the same constructor
\* called with any permutation of them builds an equal record (cause, message,
\* code, initial trace, history, wrapped error and guard), hence an error on
\* which every accessor, a function of the category and the record, answers
\* the same.
C13_OrderIndependence ==
    (last.cat \in Categories /\ AtMostOneEach(last.opts)) =>
        LET n == Len(last.opts)
            pre == SubSeq(heap, 1, Len(heap) - 1)
        IN  \A f \in Perms(n) :
                applyOptions(pre, [i \in 1..n |-> last.opts[f[i]]]) = heap[last.ret.id].Err

C13_Witness ==
    /\ last.cat = "BadRequest"
    /\ last.opts = <<CodeOpt(422), MsgOpt("m")>>
    /\ GetCode(last.ret) = 422
    /\ GetMessage(last.ret) = "m"

\* C14: a constructor called with zero options does not fail and yields a
\* typed error of its category whose message and cause are empty (GetMessage
\* and GetCause return ""), whose history is empty and whose code is the
\* category default.
C14_ZeroOptions ==
    (last.cat \in Categories /\ last.opts = <<>>) =>
        LET e == heap[last.ret.id].Err IN
        /\ ~crashed
        /\ IsTypedError(last.ret)
        /\ IsCategory(last.ret, last.cat)
        /\ e.Message = ""
        /\ e.Cause = ""
        /\ GetMessage(last.ret) = ""
        /\ GetCause(last.ret) = ""
        /\ e.Stack = <<>>
        /\ GetCode(last.ret) = DocumentedCode(last.cat)

C14_Witness ==
    /\ last.cat = "BadRequest"
    /\ last.opts = <<>>
    /\ GetMessage(last.ret) = ""
    /\ GetCode(last.ret) = 400

\* C15: accessor fall-back on typed errors: GetCause is the stored cause if
\* non-empty, else the message if non-empty, else err.Error(); GetMessage is
\* the message if non-empty, else err.Error().
C15_AccessorFallback ==
    \A a \in Addrs :
        LET e == heap[a].Err
            text == ErrorString(heap, Typed(a))
        IN  /\ GetCause(Typed(a)) =
                  (IF e.Cause # "" THEN e.Cause ELSE IF e.Message # "" THEN e.Message ELSE text)
            /\ GetMessage(Typed(a)) = (IF e.Message # "" THEN e.Message ELSE text)

C15_Witness ==
    /\ last.cat = "Conflict"
    /\ last.opts = <<WithTraceOpt(T2)>>
    /\ GetCause(last.ret) = " (at /api.Get:20)"
    /\ GetMessage(last.ret) = " (at /api.Get:20)"

\* C16: GetWrapped is the wrapped cause when one was set at construction and
\* the error itself otherwise (a non-typed error included); it is nil only
\* for a nil error.
C16_GetWrapped ==
    /\ last.cat \in Categories =>
          GetWrapped(last.ret) =
              (IF LastCause(last.opts) # Nil THEN LastCause(last.opts) ELSE last.ret)
    /\ \A err \in ExternalErrs : GetWrapped(err) = err
    /\ \A err \in Targets \cup ExternalErrs : (GetWrapped(err) = Nil) <=> (err = Nil)

C16_Witness ==
    /\ last.cat = "NotFound"
    /\ last.opts = <<MsgOpt("m"), CauseOpt(Nil)>>
    /\ GetWrapped(last.ret) = last.ret

\* C17 as claimed: ErrorF on a typed error returns the dump: the resolved
\* status code (GetCode), the cause, the message, the stack message when set,
\* and one line "<index>. <file>:<line> in <function>" per history entry.
C17_ErrorFDump ==
    \A g \in Goroutines :
        (pc[g] # "ready" /\ call[g].op = "ErrorF" /\ IsTypedError(call[g].err)) =>
            /\ pc[g] = "returned"
            /\ call[g].text = ErrorFOutput(GetErr(call[g].err))

\* C18: Error() of a typed error is exactly the message when no initial trace
\* was set; when one was set it is "<cause>: <message> (at <function>:<line>)"
\* with the cause as rendered (see C19), the "<cause>: " prefix being left out
\* when the cause is empty.
C18_ErrorFormat ==
    \A a \in Addrs :
        LET e == heap[a].Err
            at == " (at " \o e.Trace.Function \o ":" \o ToString(e.Trace.Line) \o ")"
        IN  ErrorString(heap, Typed(a)) =
                (IF e.Trace = ZeroTrace THEN e.Message
                 ELSE IF e.Cause = "" THEN e.Message \o at
                 ELSE Truncate(e.Cause) \o ": " \o e.Message \o at)

C18_Witness ==
    /\ last.cat = "Internal"
    /\ last.opts = <<WithTraceOpt(T1), MsgOpt("m")>>
    /\ ErrorString(heap, last.ret) = "m (at /svc.Load:10)"

\* C19 as claimed: truncation affects rendering only: Error() of an error
\* with an initial trace renders a cause of more than 200 characters as its
\* first 200 characters followed by "...", a cause of at most 200 characters
\* whole, and GetCause returns the full cause.
C19_TruncationRenderingOnly ==
    \A a \in Addrs :
        LET e == heap[a].Err
            at == " (at " \o e.Trace.Function \o ":" \o ToString(e.Trace.Line) \o ")"
            shown == IF CharLen(e.Cause) > 200
                     THEN FirstChars(e.Cause, 200) \o "..."
                     ELSE e.Cause
        IN  (e.Trace # ZeroTrace /\ e.Cause # "") =>
                /\ ErrorString(heap, Typed(a)) = shown \o ": " \o e.Message \o at
                /\ GetCause(Typed(a)) = ErrorString(heap, e.Wrapped)

\* C20: nil safety: with a nil error GetCause and GetMessage return "",
\* GetCode 0, GetTrace the zero entry, GetWrapped nil, and the calls GetStack,
\* GetStackJson and ErrorF return (never fail) with the empty sequence, ""
\* and "".
C20_NilSafety ==
    /\ GetCause(Nil) = ""
    /\ GetMessage(Nil) = ""
    /\ GetCode(Nil) = 0
    /\ GetTrace(Nil) = ZeroTrace
    /\ GetWrapped(Nil) = Nil
    /\ \A g \in Goroutines :
          (pc[g] # "ready" /\ call[g].err = Nil
               /\ call[g].op \in {"GetStack", "GetStackJson", "ErrorF"}) =>
              /\ pc[g] = "returned"
              /\ call[g].stack = <<>>
              /\ call[g].text = ""

C20_Witness ==
    \E g1, g2 \in Goroutines :
        /\ pc[g1] = "returned" /\ call[g1].op = "ErrorF" /\ call[g1].err = Nil
        /\ pc[g2] = "returned" /\ call[g2].op = "GetStackJson" /\ call[g2].err = Nil
        /\ call[g1].text = "" /\ call[g2].text = ""

(***************************************************************************)
(* C21-C30: non-typed errors, the guard, frames and option precedence.     *)
(***************************************************************************)
\* C21: non-typed fall-back: for a non-nil error e that is not a typed error,
\* GetCause(e) = GetMessage(e) = e.Error(), GetCode(e) = 0, GetTrace(e) is the
\* zero entry, GetWrapped(e) is e itself, and the calls GetStack, GetStackJson
\* and ErrorF return (never fail) with the empty sequence, "{}" and e.Error().
C21_NonTypedFallback ==
    /\ \A e \in ExternalErrs :
          /\ GetCause(e) = PlainText(e.id)
          /\ GetMessage(e) = PlainText(e.id)
          /\ GetCode(e) = 0
          /\ GetTrace(e) = ZeroTrace
          /\ GetWrapped(e) = e
    /\ \A g \in Goroutines :
          (pc[g] # "ready" /\ call[g].err.kind = "plain") =>
              /\ pc[g] = "returned"
              /\ call[g].op = "GetStack" => call[g].stack = <<>>
              /\ call[g].op = "GetStackJson" => call[g].text = "{}"
              /\ call[g].op = "ErrorF" => call[g].text = PlainText(call[g].err.id)

C21_Witness ==
    \E g1, g2 \in Goroutines :
        /\ pc[g1] = "returned" /\ call[g1].op = "ErrorF" /\ call[g1].err = Plain(1)
        /\ call[g1].text = "p1"
        /\ pc[g2] = "returned" /\ call[g2].op = "GetStackJson" /\ call[g2].err = Plain(1)
        /\ call[g2].text = "{}"

\* goroutines whose call has come to the guard of a record: Stack, StackMsg,
\* GetStack and GetStackJson on any typed error, ErrorF on one that has a
\* cause or a message
AtGuard ==
    {g \in Goroutines :
        /\ pc[g] # "ready"
        /\ IsTypedError(call[g].err)
        /\ \/ call[g].op \in {"Stack", "StackMsg", "GetStack", "GetStackJson"}
           \/ /\ call[g].op = "ErrorF"
              /\ LET e == heap[GetErr(call[g].err)].Err IN e.Cause # "" \/ e.Message # ""}

\* C22 as claimed: all callers on one record synchronise on one and the same
\* guard instance, the first calls on a fresh error included: every call that
\* comes to the guard of a record finds that record's guard allocated, takes
\* it and returns (its section having run under the guard, one call at a
\* time).
C22_OneGuardPerRecord ==
    \A g \in AtGuard :
        /\ heap[GetErr(call[g].err)].Err.mu # NilMu
        /\ pc[g] = "returned"

\* C23 as claimed: StackMsg appends its entry and sets the stack message as
\* one step and the last call wins: after any mix of K Stack/StackMsg calls
\* on a record its history has grown by exactly K, and its stack message is
\* that of a StackMsg call made on it (the one at construction when there was
\* none).
C23_StackMsgAtomicLastWins ==
    \A a \in Addrs :
        LET W == {g \in Appenders(a) : call[g].op = "StackMsg"} IN
        /\ Len(heap[a].Err.Stack) = Len(built[a].Err.Stack) + Cardinality(Appenders(a))
        /\ W # {} => \E g \in W : pc[g] = "returned" /\ heap[a].Err.StackMessage = call[g].msg
        /\ W = {} => heap[a].Err.StackMessage = built[a].Err.StackMessage

\* s is a prefix of t
IsPrefix(s, t) == Len(s) <= Len(t) /\ SubSeq(t, 1, Len(s)) = s

\* the step is goroutine g making a call of one of the operations ops
Calls(g, ops) == pc[g] = "ready" /\ pc'[g] # "ready" /\ call'[g].op \in ops

C28_AllCallsReturn == <>(\A g \in Goroutines : pc[g] = "returned")

\* the operations that read a record under its guard
GuardedReaders == {"GetStack", "GetStackJson", "ErrorF"}

Selected(opts, Keep(_)) ==
    LET kept == SelectSeq([i \in 1..Len(opts) |-> i], Keep) IN
    [j \in 1..Len(kept) |-> opts[kept[j]]]

\* no option after the i-th is of its kind (nil causes not counted)
LastOfKind(opts, i) ==
    \A j \in DOMAIN opts :
        (j > i /\ opts[j].kind = opts[i].kind) => (opts[j].kind = "Cause" /\ opts[j].err = Nil)

\* the list cut down to its last non-nil Cause, last Msg and last Code option,
\* with all its trace options
LastOfEachKind(opts) ==
    Selected(opts,
             LAMBDA i : \/ opts[i].kind = "WithTrace"
                        \/ /\ opts[i].kind = "Cause" => opts[i].err # Nil
                           /\ LastOfKind(opts, i))

\* the message of the last Msg option and the traces of the WithTrace options
LastMsg(opts) ==
    LET I == {i \in DOMAIN opts : opts[i].kind = "Msg"} IN
    opts[CHOOSE i \in I : \A j \in I : j <= i].msg

TracesOf(opts) ==
    LET tr == SelectSeq(opts, LAMBDA o : o.kind = "WithTrace") IN
    [i \in 1..Len(tr) |-> tr[i].trace]

C30_NilCauseNoOp ==
    last.cat \in Categories =>
        LET e == heap[last.ret.id].Err
            pre == SubSeq(heap, 1, Len(heap) - 1)
            rest == SelectSeq(last.opts, LAMBDA o : ~(o.kind = "Cause" /\ o.err = Nil))
        IN  /\ applyOptions(pre, rest) = e
            /\ (\A i \in DOMAIN last.opts : last.opts[i].kind = "Cause" => last.opts[i].err = Nil)
                   => (e.Cause = "" /\ e.Wrapped = Nil)

C30_Witness ==
    /\ last.cat = "Conflict"
    /\ last.opts = <<CauseOpt(Plain(1)), CauseOpt(Nil)>>
    /\ GetCause(last.ret) = "p1"
    /\ Unwrap(last.ret) = Plain(1)

=============================================================================
